---- MODULE Spec2Model ----
(***************************************************************************)
(* Model of the GrowthApp chatbot (src/app.py): the per-turn orchestration *)
(* in main() and the bracket-scan JSON extraction it applies to the text   *)
(* returned by the completion service.                                     *)
(*                                                                         *)
(* Texts that the code scans character by character (the classification    *)
(* completions) are sequences of one-character strings.  Chat texts (user  *)
(* prompts, generated replies), which the code only tests for emptiness    *)
(* and copies, are TLA+ strings.                                           *)
(***************************************************************************)
EXTENDS Integers, Sequences, FiniteSets, TLC

\* ------------------------------------------------------------------ bounds
MaxLen == 4        \* longest raw completion text of the extraction specification
MaxRespLen == 3    \* longest classification completion text inside a turn
MaxTurns == 2      \* number of user messages submitted in a session

\* The characters completion texts are made of: the two array brackets, the
\* two object braces, the element separator, a digit and a prose letter.
Alphabet == {"[", "]", "{", "}", ",", "1", "a"}

\* The characters of the classification completions inside a turn.
TurnAlphabet == {"[", "]", "{", "}", "1"}

RECURSIVE StringsOfLen(_, _)
StringsOfLen(A, n) ==
    IF n = 0 THEN {<<>>}
    ELSE {Append(s, c) : s \in StringsOfLen(A, n - 1), c \in A}

StringsUpTo(A, n) == UNION {StringsOfLen(A, k) : k \in 0..n}

\* ------------------------------------------------------- python primitives
\* JSON values as json.loads builds them: None, int, list, dict.
JNone == [kind |-> "None", num |-> 0, items |-> <<>>]
JNumber(n) == [kind |-> "int", num |-> n, items |-> <<>>]
JList(xs) == [kind |-> "list", num |-> 0, items |-> xs]
JDict == [kind |-> "dict", num |-> 0, items |-> <<>>]

\* Python truth value of a JSON value (the `if x:` tests of main).
Truthy(v) ==
    CASE v.kind = "None" -> FALSE
      [] v.kind = "int" -> v.num # 0
      [] v.kind = "list" -> v.items # <<>>
      [] OTHER -> FALSE    \* the only dict of the model is {}

\* str.find(c): 0-based index of the first occurrence, -1 when absent.
Find(s, c) ==
    IF \E i \in 1..Len(s) : s[i] = c
    THEN (CHOOSE i \in 1..Len(s) : s[i] = c /\ \A j \in 1..(i - 1) : s[j] # c) - 1
    ELSE -1

\* str.rfind(c): 0-based index of the last occurrence, -1 when absent.
RFind(s, c) ==
    IF \E i \in 1..Len(s) : s[i] = c
    THEN (CHOOSE i \in 1..Len(s) : s[i] = c /\ \A j \in (i + 1)..Len(s) : s[j] # c) - 1
    ELSE -1

\* Variant: the slice leaves the two brackets out.
SliceInner(s, start, end) ==
    LET e == IF end - 1 > Len(s) THEN Len(s) ELSE end - 1
    IN  IF e <= start + 1 THEN <<>> ELSE SubSeq(s, start + 2, e)

\* s[start:end] for non-negative start and end (end is clamped to len(s)).
Slice(s, start, end) ==
    LET e == IF end > Len(s) THEN Len(s) ELSE end
    IN  IF e <= start THEN <<>> ELSE SubSeq(s, start + 1, e)

\* ------------------------------------------------------------- json.loads
ParseFail == [ok |-> FALSE, val |-> JNone, end |-> 0]

CharAt(s, idx) == IF idx < Len(s) THEN s[idx + 1] ELSE ""

\* The digits matched by the number pattern at idx (the digit of Alphabet is 1).
RECURSIVE ScanNumber(_, _, _)
ScanNumber(s, idx, acc) ==
    IF CharAt(s, idx) = "1"
    THEN ScanNumber(s, idx + 1, 10 * acc + 1)
    ELSE [ok |-> TRUE, val |-> JNumber(acc), end |-> idx]

RECURSIVE ScanOnce(_, _), JSONArrayItems(_, _, _)

\* json.scanner scan_once: one value starting at idx.
ScanOnce(s, idx) ==
    LET nextchar == CharAt(s, idx)
    IN  CASE nextchar = "[" ->
               IF CharAt(s, idx + 1) = "]"
               THEN [ok |-> TRUE, val |-> JList(<<>>), end |-> idx + 2]
               ELSE JSONArrayItems(s, idx + 1, <<>>)
          [] nextchar = "{" ->
               IF CharAt(s, idx + 1) = "}"
               THEN [ok |-> TRUE, val |-> JDict, end |-> idx + 2]
               ELSE ParseFail
          [] nextchar = "1" -> ScanNumber(s, idx, 0)
          [] OTHER -> ParseFail

\* json.decoder JSONArray: the loop over the elements of a non-empty array.
JSONArrayItems(s, idx, values) ==
    LET item == ScanOnce(s, idx)
    IN  IF ~item.ok THEN ParseFail
        ELSE LET nextchar == CharAt(s, item.end)
                 vs == Append(values, item.val)
             IN  CASE nextchar = "]" ->
                        [ok |-> TRUE, val |-> JList(vs), end |-> item.end + 1]
                   [] nextchar = "," -> JSONArrayItems(s, item.end + 1, vs)
                   [] OTHER -> ParseFail

\* json.loads(s): the value, or a raised JSONDecodeError (ok = FALSE) when no
\* value starts the text or text is left over after it.
JsonLoads(s) ==
    LET r == ScanOnce(s, 0)
    IN  IF r.ok /\ r.end = Len(s) THEN [ok |-> TRUE, val |-> r.val]
        ELSE [ok |-> FALSE, val |-> JNone]

\* ------------------------------------------------- completion and extraction
\* The outcomes of query_ollama: None after a transport or HTTP failure (a
\* RequestException, caught at line 35); the "response" text of the service
\* (possibly empty); or an exception that line 35 does not catch:
\* response.json().get raises AttributeError when the service answers 200
\* with a JSON body that is not an object.
NoResponse == [isNone |-> TRUE, raises |-> FALSE, text |-> <<>>]
TextResponse(t) == [isNone |-> FALSE, raises |-> FALSE, text |-> t]
RaisedResponse == [isNone |-> FALSE, raises |-> TRUE, text |-> <<>>]

\* Outcomes of the completion call of a classification pass inside a turn.
OllamaResponses ==
    {NoResponse, RaisedResponse}
        \cup {TextResponse(t) : t \in StringsUpTo(TurnAlphabet, MaxRespLen)}

\* Outcomes of the completion call of the reply pass (chat text: only tested
\* for emptiness).
ReplyResponses ==
    {[isNone |-> TRUE, raises |-> FALSE, text |-> ""],
     [isNone |-> FALSE, raises |-> TRUE, text |-> ""],
     [isNone |-> FALSE, raises |-> FALSE, text |-> ""],
     [isNone |-> FALSE, raises |-> FALSE, text |-> "Which area is affected?"]}

\* Variant: a parse error resets the state to the empty list.
ExtractClearsOnError(response) ==
    IF response.isNone \/ response.text = <<>>
    THEN [stored |-> FALSE, raised |-> FALSE, val |-> JNone]
    ELSE LET start == Find(response.text, "[")
             end == RFind(response.text, "]") + 1
         IN  IF start # -1 /\ end # -1
             THEN LET parsed == JsonLoads(Slice(response.text, start, end))
                  IN  IF parsed.ok
                      THEN [stored |-> TRUE, raised |-> FALSE, val |-> parsed.val]
                      ELSE [stored |-> TRUE, raised |-> TRUE, val |-> JList(<<>>)]
             ELSE [stored |-> FALSE, raised |-> FALSE, val |-> JNone]

\* Variant: the slice ends at rfind(']') instead of rfind(']') + 1.
ExtractEndsAtRfind(response) ==
    IF response.isNone \/ response.text = <<>>
    THEN [stored |-> FALSE, raised |-> FALSE, val |-> JNone]
    ELSE LET start == Find(response.text, "[")
             end == RFind(response.text, "]")
         IN  IF start # -1 /\ end # -1
             THEN LET parsed == JsonLoads(Slice(response.text, start, end))
                  IN  IF parsed.ok
                      THEN [stored |-> TRUE, raised |-> FALSE, val |-> parsed.val]
                      ELSE [stored |-> FALSE, raised |-> TRUE, val |-> JNone]
             ELSE [stored |-> FALSE, raised |-> FALSE, val |-> JNone]

\* Variant: a text without '[' stores the empty list.
ExtractDefaultsWithoutBracket(response) ==
    IF response.isNone \/ response.text = <<>>
    THEN [stored |-> FALSE, raised |-> FALSE, val |-> JNone]
    ELSE LET start == Find(response.text, "[")
             end == RFind(response.text, "]") + 1
         IN  IF start # -1 /\ end # -1
             THEN LET parsed == JsonLoads(Slice(response.text, start, end))
                  IN  IF parsed.ok
                      THEN [stored |-> TRUE, raised |-> FALSE, val |-> parsed.val]
                      ELSE [stored |-> FALSE, raised |-> TRUE, val |-> JNone]
             ELSE [stored |-> TRUE, raised |-> FALSE, val |-> JList(<<>>)]

\* The try-block of a classification pass: `stored` says that the assignment
\* to the session state ran, `raised` that json.loads raised (and the except
\* branch printed the error), `val` is the value assigned.
ExtractJsonArray(response) ==
    IF response.isNone \/ response.text = <<>>
    THEN [stored |-> FALSE, raised |-> FALSE, val |-> JNone]
    ELSE LET start == Find(response.text, "[")
             end == RFind(response.text, "]") + 1
         IN  IF start # -1 /\ end # -1
             THEN LET parsed == JsonLoads(Slice(response.text, start, end))
                  IN  IF parsed.ok
                      THEN [stored |-> TRUE, raised |-> FALSE, val |-> parsed.val]
                      ELSE [stored |-> FALSE, raised |-> TRUE, val |-> JNone]
             ELSE [stored |-> FALSE, raised |-> FALSE, val |-> JNone]

\* ------------------------------------------------------------------ dataset
FP1 == [srno |-> "FP1", title |-> "Cash flow crunch", zone |-> "Finance"]
FP2 == [srno |-> "FP2", title |-> "Team attrition", zone |-> "HR"]
FP3 == [srno |-> "FP3"]

\* load_data: the records of output.jsonl, [] when the file is missing.
Datasets == {<<>>, <<FP1, FP2, FP3>>}

UserPrompts == {"We keep losing good employees."}

ErrorPlaceholder == "Error generating response."

\* ------------------------------------------------------------ reply prompt
RECURSIVE Titles(_)
\* [item['title'] for item in data if 'title' in item]
Titles(d) ==
    IF d = <<>> THEN <<>>
    ELSE IF "title" \in DOMAIN Head(d)
         THEN <<Head(d).title>> \o Titles(Tail(d))
         ELSE Titles(Tail(d))

NoPrompt == [context_instruction |-> "", source |-> "unset",
             shortlist |-> JNone, titles |-> <<>>, history |-> <<>>]

\* Variant: the dataset branch is tested before the shortlist branch.
ChatPromptTitlesFirst(fps, d, msgs) ==
    IF d # <<>>
    THEN [context_instruction |-> "Analyze the conversation against the full list of Flashpoints below.",
          source |-> "titles", shortlist |-> JNone, titles |-> Titles(d), history |-> msgs]
    ELSE IF Truthy(fps)
    THEN [context_instruction |-> "Based on the analysis, the user is likely facing one of the following Flashpoints. Use this list to ask specific clarifying questions.",
          source |-> "shortlist", shortlist |-> fps, titles |-> <<>>, history |-> msgs]
    ELSE [context_instruction |-> "",
          source |-> "No flashpoint data available.", shortlist |-> JNone,
          titles |-> <<>>, history |-> msgs]

\* The context section of chat_prompt.  flashpoints_str is kept as the object
\* that is dumped: `source` tells which branch produced it, `shortlist` is the
\* argument of json.dumps in the first branch, `titles` in the second.
ChatPrompt(fps, d, msgs) ==
    IF Truthy(fps)
    THEN [context_instruction |-> "Based on the analysis, the user is likely facing one of the following Flashpoints. Use this list to ask specific clarifying questions.",
          source |-> "shortlist", shortlist |-> fps, titles |-> <<>>, history |-> msgs]
    ELSE IF d # <<>>
    THEN [context_instruction |-> "Analyze the conversation against the full list of Flashpoints below.",
          source |-> "titles", shortlist |-> JNone, titles |-> Titles(d), history |-> msgs]
    ELSE [context_instruction |-> "",
          source |-> "No flashpoint data available.", shortlist |-> JNone,
          titles |-> <<>>, history |-> msgs]

\* -------------------------------------------------------------------- state
VARIABLES
    data,                \* st.session_state.data
    messages,            \* st.session_state.messages
    flashpoints,         \* st.session_state.flashpoints
    process_zone,        \* st.session_state.process_zone
    pc,                  \* position of the script run that carries the turn
    calls,               \* completion calls issued by the turn in progress
    chat_prompt,         \* prompt built for the reply pass of this script run
    message_placeholder, \* text rendered in the assistant bubble of this run
    lastFp,              \* history: value of the latest flashpoint pass that succeeded
    lastPz,              \* history: value of the latest zone pass that succeeded
    raw,                 \* extraction specification: the completion under test
    extracted            \* extraction specification: what the try-block did

vars == <<data, messages, flashpoints, process_zone, pc, calls, chat_prompt,
          message_placeholder, lastFp, lastPz, raw, extracted>>

NotExtracted == [done |-> FALSE, stored |-> FALSE, raised |-> FALSE, val |-> JNone]

\* ------------------------------------------------- reference for the claims
\* "First '[' to last ']' inclusive, then parse", stated on index sets.
Opens(t) == {i \in 1..Len(t) : t[i] = "["}
Closes(t) == {i \in 1..Len(t) : t[i] = "]"}
MinOf(S) == CHOOSE x \in S : \A y \in S : x <= y
MaxOf(S) == CHOOSE x \in S : \A y \in S : y <= x

BracketSlice(t) == SubSeq(t, MinOf(Opens(t)), MaxOf(Closes(t)))

PassSucceeds(response) ==
    /\ ~response.isNone
    /\ ~response.raises
    /\ Opens(response.text) # {}
    /\ Closes(response.text) # {}
    /\ JsonLoads(BracketSlice(response.text)).ok

PassValue(response) == JsonLoads(BracketSlice(response.text)).val

\* The positions of a script run.  Streamlit checks for a newly submitted
\* message at every st.* call and every st.session_state access of the run and
\* stops the run there; no such point lies inside a blocking completion call.
\*   AwaitingInput                no run is in progress, the chat input is shown
\*   ClassifyingFlashpoints       lines 141-146, before the call of line 147
\*   AwaitingFlashpointCompletion the call of line 147 is outstanding
\*   ClassifyingZone              lines 157-159, before the call of line 160
\*   AwaitingZoneCompletion       the call of line 160 is outstanding
\*   GeneratingReply              lines 171-218, before the call of line 219
\*   AwaitingReplyCompletion      the call of line 219 is outstanding
\*   RenderedReply                line 222 has rendered the reply, before line 223
\*   Idle                         lines 223/225 are done, before st.rerun()
\*   Aborted                      an uncaught exception ended the run
InTurn ==
    {"ClassifyingFlashpoints", "AwaitingFlashpointCompletion", "ClassifyingZone",
     "AwaitingZoneCompletion", "GeneratingReply", "AwaitingReplyCompletion",
     "RenderedReply"}

\* The entry of `calls` for a call that has been issued and not yet handled.
PendingCall(pass) ==
    [pass |-> pass, returned |-> "pending", open |-> FALSE, close |-> FALSE,
     stored |-> FALSE]

Handled(cs, entry) == [cs EXCEPT ![Len(cs)] = entry]

\* One entry of `calls` for a call whose outcome the run has handled.
CallEntry(pass, response, stored) ==
    [pass |-> pass,
     returned |-> IF response.raises THEN "raised"
                  ELSE IF response.isNone THEN "None"
                  ELSE IF response.text = (IF pass = "reply" THEN "" ELSE <<>>)
                       THEN "empty" ELSE "text",
     open |-> pass # "reply" /\ Opens(response.text) # {},
     close |-> pass # "reply" /\ Closes(response.text) # {},
     stored |-> stored]

UserTurns == Cardinality({i \in 1..Len(messages) : messages[i].role = "user"})

\* ------------------------------------------------------------------ actions
Init ==
    /\ data \in Datasets
    /\ messages = <<>>
    /\ flashpoints = JList(<<>>)
    /\ process_zone = JNone
    /\ pc = "AwaitingInput"
    /\ calls = <<>>
    /\ chat_prompt = NoPrompt
    /\ message_placeholder = ""
    /\ lastFp = JList(<<>>)
    /\ lastPz = JNone
    /\ raw = NoResponse
    /\ extracted = NotExtracted

\* Lines 100-141: a script run that the chat input starts with a message.
\* The chat input is live at every position: a message submitted while a run
\* is in progress stops that run at its next st.* call or session-state
\* access, whatever it was doing (an outstanding completion call is answered
\* and the answer dropped), and the new run starts without locals and with
\* fresh widgets.  The message is appended to the history and the analysis
\* block is entered or skipped.
Submit(prompt) ==
    /\ UserTurns < MaxTurns
    /\ messages' = Append(messages, [role |-> "user", content |-> prompt])
    /\ pc' = IF data # <<>> THEN "ClassifyingFlashpoints" ELSE "GeneratingReply"
    /\ calls' = <<>>
    /\ chat_prompt' = NoPrompt
    /\ message_placeholder' = ""
    /\ UNCHANGED <<data, flashpoints, process_zone, lastFp, lastPz, raw, extracted>>

\* Lines 142-147: the flashpoint prompt is built and the call is issued.
FlashpointCall ==
    /\ pc = "ClassifyingFlashpoints"
    /\ calls' = Append(calls, PendingCall("flashpoint"))
    /\ pc' = "AwaitingFlashpointCompletion"
    /\ UNCHANGED <<data, messages, flashpoints, process_zone, chat_prompt,
                   message_placeholder, lastFp, lastPz, raw, extracted>>

\* Lines 147-155: the call of line 147 ends and its outcome is handled.  The
\* call stands outside the try-block: when query_ollama raises, the exception
\* leaves main() and the run ends there.
FlashpointPass(fp_response) ==
    /\ pc = "AwaitingFlashpointCompletion"
    /\ IF fp_response.raises
       THEN /\ calls' = Handled(calls, CallEntry("flashpoint", fp_response, FALSE))
            /\ pc' = "Aborted"
            /\ UNCHANGED flashpoints
       ELSE LET r == ExtractJsonArray(fp_response)
            IN  /\ flashpoints' = IF r.stored THEN r.val ELSE flashpoints
                /\ calls' = Handled(calls, CallEntry("flashpoint", fp_response, r.stored))
                /\ pc' = "ClassifyingZone"
    /\ lastFp' = IF PassSucceeds(fp_response) THEN PassValue(fp_response) ELSE lastFp
    /\ UNCHANGED <<data, messages, process_zone, chat_prompt,
                   message_placeholder, lastPz, raw, extracted>>

\* Lines 157-160: the zone prompt is built and the call is issued.
ZoneCall ==
    /\ pc = "ClassifyingZone"
    /\ calls' = Append(calls, PendingCall("zone"))
    /\ pc' = "AwaitingZoneCompletion"
    /\ UNCHANGED <<data, messages, flashpoints, process_zone, chat_prompt,
                   message_placeholder, lastFp, lastPz, raw, extracted>>

\* Variant: the zone pass assigns its parse to the shortlist field.
ZonePassWritesFlashpoints(pz_response) ==
    /\ pc = "AwaitingZoneCompletion"
    /\ IF pz_response.raises
       THEN /\ calls' = Handled(calls, CallEntry("zone", pz_response, FALSE))
            /\ pc' = "Aborted"
            /\ UNCHANGED flashpoints
       ELSE LET r == ExtractJsonArray(pz_response)
            IN  /\ flashpoints' = IF r.stored THEN r.val ELSE flashpoints
                /\ calls' = Handled(calls, CallEntry("zone", pz_response, r.stored))
                /\ pc' = "GeneratingReply"
    /\ lastPz' = IF PassSucceeds(pz_response) THEN PassValue(pz_response) ELSE lastPz
    /\ UNCHANGED <<data, messages, process_zone, chat_prompt,
                   message_placeholder, lastFp, raw, extracted>>

\* Lines 160-168: the call of line 160 ends and its outcome is handled.  The
\* call stands outside the try-block.
ZonePass(pz_response) ==
    /\ pc = "AwaitingZoneCompletion"
    /\ IF pz_response.raises
       THEN /\ calls' = Handled(calls, CallEntry("zone", pz_response, FALSE))
            /\ pc' = "Aborted"
            /\ UNCHANGED process_zone
       ELSE LET r == ExtractJsonArray(pz_response)
            IN  /\ process_zone' = IF r.stored THEN r.val ELSE process_zone
                /\ calls' = Handled(calls, CallEntry("zone", pz_response, r.stored))
                /\ pc' = "GeneratingReply"
    /\ lastPz' = IF PassSucceeds(pz_response) THEN PassValue(pz_response) ELSE lastPz
    /\ UNCHANGED <<data, messages, flashpoints, chat_prompt,
                   message_placeholder, lastFp, raw, extracted>>

\* Lines 171-219: the assistant bubble is opened, the reply prompt is built
\* and the call is issued.
ReplyCall ==
    /\ pc = "GeneratingReply"
    /\ chat_prompt' = ChatPrompt(flashpoints, data, messages)
    /\ calls' = Append(calls, PendingCall("reply"))
    /\ pc' = "AwaitingReplyCompletion"
    /\ UNCHANGED <<data, messages, flashpoints, process_zone,
                   message_placeholder, lastFp, lastPz, raw, extracted>>

\* Lines 219-222 and 224-225: the call of line 219 ends; the reply is rendered
\* in the assistant bubble, or the error text is.  When the call raises, the
\* run ends with the bubble left empty.
GenerateReply(response_text) ==
    /\ pc = "AwaitingReplyCompletion"
    /\ calls' = Handled(calls, CallEntry("reply", response_text, FALSE))
    /\ IF response_text.raises
       THEN /\ pc' = "Aborted"
            /\ UNCHANGED <<messages, message_placeholder>>
       ELSE IF ~response_text.isNone /\ response_text.text # ""
       THEN /\ message_placeholder' = response_text.text
            /\ pc' = "RenderedReply"
            /\ UNCHANGED messages
       ELSE /\ message_placeholder' = ErrorPlaceholder
            /\ pc' = "Idle"
            /\ UNCHANGED messages
    /\ UNCHANGED <<data, flashpoints, process_zone, chat_prompt, lastFp, lastPz,
                   raw, extracted>>

\* Variant: the reply is rendered and never appended to the history.
AppendReplyRendersOnly ==
    /\ pc = "RenderedReply"
    /\ messages' = messages
    /\ calls' = Handled(calls, [calls[Len(calls)] EXCEPT !.stored = TRUE])
    /\ pc' = "Idle"
    /\ UNCHANGED <<data, flashpoints, process_zone, chat_prompt,
                   message_placeholder, lastFp, lastPz, raw, extracted>>

\* Line 223: the rendered reply (full_response) is appended to the history.
AppendReply ==
    /\ pc = "RenderedReply"
    /\ messages' = Append(messages, [role |-> "assistant",
                                     content |-> message_placeholder])
    /\ calls' = Handled(calls, [calls[Len(calls)] EXCEPT !.stored = TRUE])
    /\ pc' = "Idle"
    /\ UNCHANGED <<data, flashpoints, process_zone, chat_prompt,
                   message_placeholder, lastFp, lastPz, raw, extracted>>

\* Lines 227-230: st.rerun() restarts the script; its locals and the widgets
\* of the run are gone, the session state stays, the chat input is shown again.
Rerun ==
    /\ pc = "Idle"
    /\ pc' = "AwaitingInput"
    /\ calls' = <<>>
    /\ chat_prompt' = NoPrompt
    /\ message_placeholder' = ""
    /\ UNCHANGED <<data, messages, flashpoints, process_zone, lastFp, lastPz,
                   raw, extracted>>

SubmitStep == \E prompt \in UserPrompts : Submit(prompt)
FlashpointStep == \E fp_response \in OllamaResponses : FlashpointPass(fp_response)
ZoneStep == \E pz_response \in OllamaResponses : ZonePass(pz_response)
ReplyStep == \E response_text \in ReplyResponses : GenerateReply(response_text)

Next ==
    \/ SubmitStep
    \/ FlashpointCall
    \/ FlashpointStep
    \/ ZoneCall
    \/ ZoneStep
    \/ ReplyCall
    \/ ReplyStep
    \/ AppendReply
    \/ Rerun

Spec == Init /\ [][Next]_vars

\* query_ollama is synchronous: every call ends (with None, a text or an
\* exception), and a run that is not stopped goes on after each step.  Nothing
\* obliges the user to submit a message.
FairSpec ==
    Spec /\ WF_vars(FlashpointCall) /\ WF_vars(FlashpointStep)
         /\ WF_vars(ZoneCall) /\ WF_vars(ZoneStep)
         /\ WF_vars(ReplyCall) /\ WF_vars(ReplyStep)
         /\ WF_vars(AppendReply) /\ WF_vars(Rerun)

\* ------------------------------------------- the extraction, taken alone
InitExtract ==
    /\ data = <<FP1, FP2, FP3>>
    /\ messages = <<>>
    /\ flashpoints = JList(<<>>)
    /\ process_zone = JNone
    /\ pc = "AwaitingInput"
    /\ calls = <<>>
    /\ chat_prompt = NoPrompt
    /\ message_placeholder = ""
    /\ lastFp = JList(<<>>)
    /\ lastPz = JNone
    /\ raw \in {NoResponse} \cup {TextResponse(t) : t \in StringsUpTo(Alphabet, MaxLen)}
    /\ extracted = NotExtracted

ApplyExtraction ==
    /\ ~extracted.done
    /\ LET r == ExtractJsonArray(raw)
       IN  extracted' = [done |-> TRUE, stored |-> r.stored, raised |-> r.raised,
                         val |-> r.val]
    /\ UNCHANGED <<data, messages, flashpoints, process_zone, pc, calls,
                   chat_prompt, message_placeholder, lastFp, lastPz, raw>>

NextExtract == ApplyExtraction

SpecExtract == InitExtract /\ [][NextExtract]_vars

\* ------------------------------------------------------------- side panel
\* Lines 247-249: the zone panel iterates over the zone state, wrapping a
\* value that is not a list into a one-element list.
ZonePanel(pz) ==
    IF Truthy(pz) THEN (IF pz.kind = "list" THEN pz.items ELSE <<pz>>) ELSE <<>>

ZoneWrapExercised(pz) == Truthy(pz) /\ pz.kind # "list"

\* ------------------------------------------------------------------ claims
LastCall(cs) == cs[Len(cs)]
PassNames(cs) == [i \in 1..Len(cs) |-> cs[i].pass]
IsPrefix(s, t) == Len(s) <= Len(t) /\ SubSeq(t, 1, Len(s)) = s

\* C1: the shortlist is the value parsed by the most recent flashpoint pass
\* that succeeded (the initial empty list if none has) and the zone state the
\* value parsed by the most recent zone pass that succeeded (None if none
\* has); a pass that returns null or fails to extract clears nothing.
C1_MostRecentSuccessfulParse ==
    /\ flashpoints = lastFp
    /\ process_zone = lastPz

\* A second-turn flashpoint pass got a null completion while the shortlist of
\* an earlier turn is in place.
C1_Witness ==
    /\ pc = "ClassifyingZone"
    /\ Truthy(flashpoints)
    /\ calls[1].returned = "None"
    /\ ~calls[1].stored

\* C2 as stated: at the end of every turn the history ends with the user's
\* message followed by one assistant-side entry, so that every completed turn
\* adds exactly two entries.
C2_TurnAddsTwoEntries ==
    pc = "Idle" =>
        /\ Len(messages) = 2 * UserTurns
        /\ messages[Len(messages)].role = "assistant"
        /\ messages[Len(messages) - 1].role = "user"

\* C2 amended: at the end of every turn (Idle) exactly one of two things has
\* happened after the user's message.  When the reply completion returned
\* non-empty text, exactly one assistant entry holding that reply has been
\* appended right after the user's message: the turn grew the history by
\* two entries.  When it returned null or an empty text, nothing has been
\* appended, the error text is only rendered in the assistant bubble and the
\* history still ends with the user's message: the turn grew the history by
\* one entry.  No other step appends anything but the user entry of a
\* submitted message.
C2_ReplyAppendedOnlyOnText ==
    [][ /\ (pc # "Idle" /\ pc' = "Idle" =>
              /\ messages[Len(messages)].role = "user"
              /\ IF LastCall(calls').returned = "text"
                 THEN /\ pc = "RenderedReply"
                      /\ LastCall(calls').stored
                      /\ message_placeholder' # ErrorPlaceholder
                      /\ messages' = Append(messages,
                              [role |-> "assistant", content |-> message_placeholder'])
                 ELSE /\ pc = "AwaitingReplyCompletion"
                      /\ LastCall(calls').returned \in {"None", "empty"}
                      /\ message_placeholder' = ErrorPlaceholder
                      /\ messages' = messages)
        /\ (pc = "AwaitingReplyCompletion" /\ calls' # <<>>
               /\ LastCall(calls').returned = "text" =>
              /\ pc' = "RenderedReply"
              /\ message_placeholder' # ""
              /\ messages' = messages)
        /\ (pc' # "Idle" =>
              \/ messages' = messages
              \/ /\ \E prompt \in UserPrompts :
                       messages' = Append(messages, [role |-> "user", content |-> prompt])
                 /\ pc' \in {"ClassifyingFlashpoints", "GeneratingReply"}
                 /\ calls' = <<>>)
        /\ (pc # "Aborted" /\ pc' = "Aborted" =>
              /\ LastCall(calls').returned = "raised"
              /\ message_placeholder' = "") ]_vars

\* A turn whose reply completion failed has ended: the error text is shown and
\* the history still ends with the user's message.
C2_Witness ==
    /\ pc = "Idle"
    /\ message_placeholder = ErrorPlaceholder
    /\ LastCall(calls).returned = "None"
    /\ messages[Len(messages)].role = "user"

\* The well-formed JSON arrays embedded in a text: arr = t[i..j].
ArrayAt(t, i, j) ==
    /\ t[i] = "["
    /\ JsonLoads(SubSeq(t, i, j)).ok

Embeddings(t) ==
    {ij \in (1..Len(t)) \X (1..Len(t)) : ij[1] <= ij[2] /\ ArrayAt(t, ij[1], ij[2])}

\* C3 as stated: whatever the prose before and after a well-formed JSON array,
\* brackets included, the extraction yields exactly that array.
C3_AnyProse ==
    extracted.done =>
        \A ij \in Embeddings(raw.text) :
            /\ extracted.stored
            /\ extracted.val = JsonLoads(SubSeq(raw.text, ij[1], ij[2])).val

\* C3 amended: the extraction yields exactly the embedded array, whatever the
\* surrounding prose, provided the prose before the array contains no '[' and
\* the prose after it contains no ']'.
C3_ProseWithoutOuterBrackets ==
    extracted.done =>
        \A ij \in Embeddings(raw.text) :
            (/\ \A k \in 1..(ij[1] - 1) : raw.text[k] # "["
             /\ \A k \in (ij[2] + 1)..Len(raw.text) : raw.text[k] # "]")
            => /\ extracted.stored
               /\ extracted.val = JsonLoads(SubSeq(raw.text, ij[1], ij[2])).val

\* An array with prose on both sides has been extracted.
C3_Witness ==
    /\ extracted.done
    /\ extracted.stored
    /\ \E ij \in Embeddings(raw.text) :
          /\ ij[1] > 1
          /\ ij[2] < Len(raw.text)
          /\ \A k \in 1..(ij[1] - 1) : raw.text[k] # "["
          /\ \A k \in (ij[2] + 1)..Len(raw.text) : raw.text[k] # "]"

\* C4: a classification completion whose text lacks '[' or lacks ']' yields no
\* value, leaves the shortlist and the zone state unchanged, and the turn goes
\* on to its next step.
C4_MissingBracketKeepsState ==
    [][ (/\ pc \in {"AwaitingFlashpointCompletion", "AwaitingZoneCompletion"}
         /\ calls' # <<>>
         /\ LastCall(calls').returned = "text"
         /\ ~(LastCall(calls').open /\ LastCall(calls').close))
        => /\ ~LastCall(calls').stored
           /\ flashpoints' = flashpoints
           /\ process_zone' = process_zone
           /\ pc' = IF pc = "AwaitingFlashpointCompletion"
                    THEN "ClassifyingZone" ELSE "GeneratingReply" ]_vars

\* A zone completion with an opening but no closing bracket was processed
\* while a zone value of an earlier turn is in place.
C4_Witness ==
    /\ pc = "GeneratingReply"
    /\ Truthy(process_zone)
    /\ calls[2].returned = "text"
    /\ calls[2].open
    /\ ~calls[2].close

\* C5: the context of the reply prompt is the shortlist, without the title
\* list, when the shortlist is non-empty; else the title list of the dataset
\* when the dataset is non-empty; else the no-data text.
C5_ContextPriority ==
    chat_prompt.source # "unset" =>
        /\ pc \in {"AwaitingReplyCompletion", "RenderedReply", "Idle", "Aborted"}
        /\ LastCall(calls).pass = "reply"
        /\ Truthy(flashpoints) =>
              /\ chat_prompt.source = "shortlist"
              /\ chat_prompt.shortlist = flashpoints
              /\ chat_prompt.titles = <<>>
        /\ (~Truthy(flashpoints) /\ data # <<>>) =>
              /\ chat_prompt.source = "titles"
              /\ chat_prompt.titles = Titles(data)
              /\ chat_prompt.shortlist = JNone
        /\ (~Truthy(flashpoints) /\ data = <<>>) =>
              /\ chat_prompt.source = "No flashpoint data available."
              /\ chat_prompt.titles = <<>>
              /\ chat_prompt.shortlist = JNone

\* A reply prompt was built from a non-empty shortlist over a dataset that
\* has titles.
C5_Witness ==
    /\ pc = "Idle"
    /\ Truthy(flashpoints)
    /\ Titles(data) # <<>>
    /\ chat_prompt.source = "shortlist"

\* C6: with an empty dataset no flashpoint or zone call is issued, the turn
\* goes from the user message to reply generation with the no-data context,
\* and the shortlist stays empty and the zone state None; with a non-empty
\* dataset both classification passes run in every turn.
C6_EmptyDatasetSkipsAnalysis ==
    /\ data = <<>> =>
          /\ pc \notin {"ClassifyingFlashpoints", "AwaitingFlashpointCompletion",
                       "ClassifyingZone", "AwaitingZoneCompletion"}
          /\ \A i \in 1..Len(calls) : calls[i].pass = "reply"
          /\ flashpoints = JList(<<>>)
          /\ process_zone = JNone
          /\ (chat_prompt.source # "unset" =>
                chat_prompt.source = "No flashpoint data available.")
    /\ (data # <<>> /\ pc \in {"GeneratingReply", "AwaitingReplyCompletion",
                               "RenderedReply", "Idle", "Aborted"}) =>
          /\ \E i \in 1..Len(calls) : calls[i].pass = "flashpoint"
          /\ \E i \in 1..Len(calls) : calls[i].pass = "zone"

\* C7: over a non-empty dataset the calls of a turn are the flashpoint pass,
\* the zone pass and the reply, in that order, each once, whatever the
\* outcome of the earlier ones: a turn that has ended has issued all three.
C7_ThreeCallsInOrder ==
    data # <<>> =>
        PassNames(calls) =
            CASE pc \in {"AwaitingFlashpointCompletion", "ClassifyingZone"} ->
                   <<"flashpoint">>
              [] pc \in {"AwaitingZoneCompletion", "GeneratingReply"} ->
                   <<"flashpoint", "zone">>
              [] pc \in {"AwaitingReplyCompletion", "RenderedReply", "Idle", "Aborted"} ->
                   <<"flashpoint", "zone", "reply">>
              [] OTHER -> <<>>

\* C8: every turn that is started reaches Idle and from there returns to
\* AwaitingInput, whatever the outcomes of its three passes, and a user
\* message is admitted only in AwaitingInput.
C8_TurnAlwaysCompletes ==
    /\ (pc \in InTurn) ~> (pc = "Idle")
    /\ (pc = "Idle") ~> (pc = "AwaitingInput")
    /\ [][UserTurns' # UserTurns => pc = "AwaitingInput"]_vars

\* C9: the flashpoint pass writes at most the shortlist, the zone pass at most
\* the zone state, reply generation at most the history; history entries are
\* never modified or removed; the dataset never changes.
C9_StepsWriteOwnField ==
    [][ /\ data' = data
        /\ IsPrefix(messages, messages')
        /\ (UserTurns' # UserTurns =>
              flashpoints' = flashpoints /\ process_zone' = process_zone)
        /\ (UserTurns' = UserTurns =>
              /\ (pc \in {"ClassifyingFlashpoints", "AwaitingFlashpointCompletion"} =>
                    process_zone' = process_zone /\ messages' = messages)
              /\ (pc \in {"ClassifyingZone", "AwaitingZoneCompletion"} =>
                    flashpoints' = flashpoints /\ messages' = messages)
              /\ (pc \in {"AwaitingInput", "GeneratingReply", "AwaitingReplyCompletion",
                          "RenderedReply", "Idle", "Aborted"} =>
                    flashpoints' = flashpoints /\ process_zone' = process_zone)) ]_vars

\* Every field has been written: a shortlist, a different zone value and a
\* reply are in place.
C9_Witness ==
    /\ pc = "Idle"
    /\ Truthy(flashpoints)
    /\ process_zone.kind = "list"
    /\ process_zone # flashpoints
    /\ Len(messages) >= 2
    /\ messages[Len(messages)].role = "assistant"

\* C10: the shortlist is always a list and the zone state None or a list, so
\* the zone panel never wraps a non-list value.
C10_StateIsListOrNone ==
    /\ flashpoints.kind = "list"
    /\ process_zone.kind \in {"None", "list"}
    /\ ~ZoneWrapExercised(process_zone)
    /\ (process_zone.kind = "list" => ZonePanel(process_zone) = process_zone.items)

\* A non-empty zone list is in place after a later zone completion that
\* carried no array (a bare object or prose) was ignored.
C10_Witness ==
    /\ pc = "GeneratingReply"
    /\ Truthy(process_zone)
    /\ ZonePanel(process_zone) # <<>>
    /\ calls[2].returned = "text"
    /\ ~calls[2].open

====
